---- MODULE Spec2Model ----
(***************************************************************************)
(* The per-file merkle hash tree of libtorrent,                            *)
(* include/libtorrent/aux_/merkle_tree.hpp: one flat vector of sha256      *)
(* hashes, root at index 0, with its constructors, load_tree, fill, clear  *)
(* and its views.  The helpers of merkle.hpp the header calls              *)
(* (merkle_num_leafs, merkle_num_nodes, merkle_fill_tree,                  *)
(* merkle_clear_tree) and the padding hashes are not part of the header;   *)
(* they follow the design document (sections 3, 4.1, 4.4, 4.5).            *)
(***************************************************************************)
EXTENDS Integers, Sequences, FiniteSets, TLC

\* ------------------------------------------------------------------ bounds
\* largest num_blocks handed to merkle_tree(int, char const*)
MaxBlocks == 3
\* longest std::vector<sha256_hash> handed to the vector constructor or load_tree
MaxVec == 3
\* the hashes a caller supplies are <<0>> (all zero) .. <<MaxHash>>
MaxHash == 1
\* operator[] writes made to one tree
MaxWrites == 1

\* ------------------------------------------------------------ sha256_hash
\* A digest is <<i>> when it is given from outside, and <<l, r>> when it is
\* the SHA-256 of the two digests l and r: hashing is injective and never
\* yields a given digest.
zero == <<0>>

Hash(l, r) == <<l, r>>

Hashes == {<<i>> : i \in 0..MaxHash}

Vectors == UNION {[1..k -> Hashes] : k \in 0..MaxVec}

\* num_blocks values: the valid ones and 0 and -1
BlockCounts == (0 - 1)..MaxBlocks

\* pad[0] = Hash(all-zero block): a digest no caller supplies
pad_leaf == <<0 - 1>>

RECURSIVE pad_hash(_)
pad_hash(level) ==
    IF level <= 0 THEN pad_leaf
    ELSE Hash(pad_hash(level - 1), pad_hash(level - 1))

\* ------------------------------------------------------- layer arithmetic
\* smallest power of two >= blocks, by doubling from 1
RECURSIVE round_up_pow2(_, _)
round_up_pow2(blocks, ret) ==
    IF blocks > ret THEN round_up_pow2(blocks, 2 * ret) ELSE ret

merkle_num_leafs(blocks) == round_up_pow2(blocks, 1)

merkle_num_nodes(leafs) == 2 * leafs - 1

RECURSIVE is_pow2(_)
is_pow2(n) ==
    IF n < 1 THEN FALSE
    ELSE IF n = 1 THEN TRUE
    ELSE n % 2 = 0 /\ is_pow2(n \div 2)

RECURSIVE log2(_)
log2(n) == IF n <= 1 THEN 0 ELSE 1 + log2(n \div 2)

\* ------------------------------------------------------------------ state
VARIABLES
    m_full_tree,  \* aux::vector<sha256_hash>; slot i of the code is m_full_tree[i + 1]
    made,         \* the constructor call that made the tree
    call,         \* the member called last
    args,         \* its integer arguments
    outcome,      \* how that call ended
    ret,          \* the span leafs() returned, <<>> after any other call
    writes,       \* operator[] writes since construction
    exported      \* the last build_vector() copy the caller holds

vars == <<m_full_tree, made, call, args, outcome, ret, writes, exported>>

\* ------------------------------------------------------------------ views
end_index(tree) == Len(tree)

size(tree) == Len(tree)

empty(tree) == Len(tree) = 0

\* m_full_tree[idx] of the code, idx from 0
at(tree, idx) == tree[idx + 1]

root(tree) == at(tree, 0)

build_vector(tree) == [i \in 1..Len(tree) |-> tree[i]]

\* leafs without the + 1 that rounds the half up
leafs_round_down(tree) ==
    LET num_leafs == end_index(tree) \div 2
        leafs_start == end_index(tree) - num_leafs
    IN  <<leafs_start, num_leafs>>

\* span {&m_full_tree[leafs_start], num_leafs} as <<leafs_start, num_leafs>>
leafs(tree) ==
    LET num_leafs == (end_index(tree) + 1) \div 2
        leafs_start == end_index(tree) - num_leafs
    IN  <<leafs_start, num_leafs>>

\* the slots a span <<start, count>> shows
span_view(tree, sp) == [i \in 1..sp[2] |-> at(tree, sp[1] + i - 1)]

\* ----------------------------------------------------------- constructors
\* ctor_blocks sizing the vector from num_blocks without rounding it up
ctor_blocks_no_round_up(num_blocks, r) ==
    [i \in 1..merkle_num_nodes(num_blocks) |-> IF i = 1 THEN r ELSE zero]

\* m_full_tree(merkle_num_nodes(merkle_num_leafs(num_blocks))); m_full_tree[0] = root
ctor_blocks(num_blocks, r) ==
    [i \in 1..merkle_num_nodes(merkle_num_leafs(num_blocks)) |->
        IF i = 1 THEN r ELSE zero]

\* m_full_tree(tree.begin(), tree.end())
ctor_vector(t) == [i \in 1..Len(t) |-> t[i]]

\* -------------------------------------------------------------- load_tree
\* load_tree without the comparison of the roots
load_tree_no_root_check(tree, t, front) ==
    IF Len(t) = 0 THEN [nodes |-> tree, assigned |-> FALSE]
    ELSE IF size(tree) # Len(t) THEN [nodes |-> tree, assigned |-> FALSE]
    ELSE [nodes |-> [i \in 1..Len(t) |-> t[i]], assigned |-> TRUE]

\* load_tree without the comparison of the sizes
load_tree_no_size_check(tree, t, front) ==
    IF Len(t) = 0 THEN [nodes |-> tree, assigned |-> FALSE]
    ELSE IF front # t[1] THEN [nodes |-> tree, assigned |-> FALSE]
    ELSE [nodes |-> [i \in 1..Len(t) |-> t[i]], assigned |-> TRUE]

\* load_tree with the comparison of the sizes inverted
load_tree_inverted_size(tree, t, front) ==
    IF Len(t) = 0 THEN [nodes |-> tree, assigned |-> FALSE]
    ELSE IF front # t[1] THEN [nodes |-> tree, assigned |-> FALSE]
    ELSE IF size(tree) = Len(t) THEN [nodes |-> tree, assigned |-> FALSE]
    ELSE [nodes |-> [i \in 1..Len(t) |-> t[i]], assigned |-> TRUE]

\* load_tree copying the candidate over the tree before it compares the sizes
load_tree_torn(tree, t, front) ==
    IF Len(t) = 0 THEN [nodes |-> tree, assigned |-> FALSE]
    ELSE IF front # t[1] THEN [nodes |-> tree, assigned |-> FALSE]
    ELSE IF size(tree) # Len(t)
         THEN [nodes |-> [i \in 1..Len(tree) |->
                             IF i <= Len(t) THEN t[i] ELSE tree[i]],
               assigned |-> FALSE]
    ELSE [nodes |-> [i \in 1..Len(t) |-> t[i]], assigned |-> TRUE]

\* load_tree assigning the candidate without its last element
load_tree_drops_last(tree, t, front) ==
    IF Len(t) = 0 THEN [nodes |-> tree, assigned |-> FALSE]
    ELSE IF front # t[1] THEN [nodes |-> tree, assigned |-> FALSE]
    ELSE IF size(tree) # Len(t) THEN [nodes |-> tree, assigned |-> FALSE]
    ELSE [nodes |-> [i \in 1..(Len(t) - 1) |-> t[i]], assigned |-> TRUE]

\* front is what the read of m_full_tree[0] yields
load_tree(tree, t, front) ==
    IF Len(t) = 0 THEN [nodes |-> tree, assigned |-> FALSE]
    ELSE IF front # t[1] THEN [nodes |-> tree, assigned |-> FALSE]
    ELSE IF size(tree) # Len(t) THEN [nodes |-> tree, assigned |-> FALSE]
    ELSE [nodes |-> [i \in 1..Len(t) |-> t[i]], assigned |-> TRUE]

\* ------------------------------------------------------------------- fill
\* a layer starts at index 2^k - 1 and holds 2^k nodes
layer_width(level_start) == level_start + 1

is_layer(tree, level_start) ==
    /\ level_start >= 0
    /\ is_pow2(layer_width(level_start))
    /\ level_start + layer_width(level_start) <= Len(tree)

\* how many layers lie between this layer and the last whole layer of the tree
layer_height(tree, level_start) ==
    log2((Len(tree) + 1) \div 2) - log2(layer_width(level_start))

\* the child at position k of the layer: read from the tree while k is below
\* the populated count, the padding hash of the layer otherwise
child(tree, level_start, valid, height, k) ==
    IF k < valid THEN at(tree, level_start + k) ELSE pad_hash(height)

\* every node of the parent layer set to Hash(left child || right child)
fill_layer(tree, level_start, valid, height) ==
    LET parent_start == (level_start - 1) \div 2
    IN  [i \in 1..Len(tree) |->
            IF i - 1 >= parent_start /\ i - 1 < level_start
            THEN LET j == i - 1 - parent_start
                 IN  Hash(child(tree, level_start, valid, height, 2 * j),
                          child(tree, level_start, valid, height, 2 * j + 1))
            ELSE tree[i]]

\* layer by layer from level_start up to the root
RECURSIVE fill_from(_, _, _, _)
fill_from(tree, level_start, valid, height) ==
    IF level_start <= 0 THEN tree
    ELSE fill_from(fill_layer(tree, level_start, valid, height),
                   (level_start - 1) \div 2, (valid + 1) \div 2, height + 1)

merkle_fill_tree_from(tree, piece_layer_size, level_start) ==
    fill_from(tree, level_start, piece_layer_size,
              layer_height(tree, level_start))

\* the layer that holds piece_layer_size nodes
piece_layer_start(piece_layer_size) == merkle_num_leafs(piece_layer_size) - 1

merkle_fill_tree(tree, piece_layer_size) ==
    merkle_fill_tree_from(tree, piece_layer_size,
                          piece_layer_start(piece_layer_size))

\* fill handing merkle_fill_tree the width of the layer: every child is read
fill_whole_layer(tree, piece_layer_size) ==
    merkle_fill_tree(tree, layer_width(piece_layer_start(piece_layer_size)))

fill(tree, piece_layer_size) == merkle_fill_tree(tree, piece_layer_size)

fill_level(tree, piece_layer_size, level_start) ==
    merkle_fill_tree_from(tree, piece_layer_size, level_start)

\* ------------------------------------------------------------------ clear
\* the slots level_start .. level_start + num_leafs - 1 set to zero
merkle_clear_tree(tree, num_leafs, level_start) ==
    [i \in 1..Len(tree) |->
        IF i - 1 >= level_start /\ i - 1 < level_start + num_leafs
        THEN zero ELSE tree[i]]

\* the range is one or more whole layers of the tree
is_layers(tree, num_leafs, level_start) ==
    /\ num_leafs >= 1
    /\ level_start >= 0
    /\ is_pow2(level_start + 1)
    /\ is_pow2(level_start + num_leafs + 1)
    /\ level_start + num_leafs <= Len(tree)

clear(tree, num_leafs, level_start) ==
    merkle_clear_tree(tree, num_leafs, level_start)

\* ------------------------------------------------------------ operator[]
\* m_full_tree[idx] = h through the reference operator[] returns
index_write(tree, idx, h) == [tree EXCEPT ![idx + 1] = h]

\* ---------------------------------------------------------------- actions
Made(kind, n, r) == [kind |-> kind, n |-> n, root |-> r]

Init ==
    /\ m_full_tree = <<>>
    /\ made = Made("default", 0, zero)
    /\ call = "ctor_default"
    /\ args = <<>>
    /\ outcome = "ok"
    /\ ret = <<>>
    /\ writes = 0
    /\ exported = <<>>

CallCtorDefault ==
    /\ outcome # "abort"
    /\ m_full_tree' = <<>>
    /\ made' = Made("default", 0, zero)
    /\ call' = "ctor_default"
    /\ args' = <<>>
    /\ outcome' = "ok"
    /\ ret' = <<>>
    /\ writes' = 0
    /\ UNCHANGED exported

CallCtorBlocks(num_blocks, r) ==
    /\ outcome # "abort"
    /\ m_full_tree' = ctor_blocks(num_blocks, r)
    /\ made' = Made("blocks", num_blocks, r)
    /\ call' = "ctor_blocks"
    /\ args' = <<num_blocks>>
    /\ outcome' = "ok"
    /\ ret' = <<>>
    /\ writes' = 0
    /\ UNCHANGED exported

CallCtorVector(t) ==
    /\ outcome # "abort"
    /\ m_full_tree' = ctor_vector(t)
    /\ made' = Made("vector", Len(t), zero)
    /\ call' = "ctor_vector"
    /\ args' = <<>>
    /\ outcome' = "ok"
    /\ ret' = <<>>
    /\ writes' = 0
    /\ UNCHANGED exported

\* On an empty tree a non-empty t makes load_tree read m_full_tree[0] past
\* the end of the vector: the build aborts there, or the read yields some
\* digest and the call goes on with it.
CallLoadTree(t) ==
    /\ outcome # "abort"
    /\ call' = "load_tree"
    /\ args' = <<>>
    /\ ret' = <<>>
    /\ UNCHANGED <<made, writes, exported>>
    /\ IF Len(t) # 0 /\ empty(m_full_tree)
       THEN \/ /\ outcome' = "abort"
               /\ UNCHANGED m_full_tree
            \/ \E front \in Hashes :
                  /\ m_full_tree' = load_tree(m_full_tree, t, front).nodes
                  /\ outcome' = "oob_read"
       ELSE LET front == IF empty(m_full_tree) THEN zero ELSE root(m_full_tree)
                r == load_tree(m_full_tree, t, front)
            IN  /\ m_full_tree' = r.nodes
                /\ outcome' = IF r.assigned THEN "accepted" ELSE "rejected"

CallFill(piece_layer_size) ==
    /\ outcome # "abort"
    /\ piece_layer_size >= 0
    /\ is_layer(m_full_tree, piece_layer_start(piece_layer_size))
    /\ m_full_tree' = fill(m_full_tree, piece_layer_size)
    /\ call' = "fill"
    /\ args' = <<piece_layer_size>>
    /\ outcome' = "ok"
    /\ ret' = <<>>
    /\ UNCHANGED <<made, writes, exported>>

CallFillLevel(piece_layer_size, level_start) ==
    /\ outcome # "abort"
    /\ is_layer(m_full_tree, level_start)
    /\ piece_layer_size >= 0
    /\ piece_layer_size <= layer_width(level_start)
    /\ m_full_tree' = fill_level(m_full_tree, piece_layer_size, level_start)
    /\ call' = "fill_level"
    /\ args' = <<piece_layer_size, level_start>>
    /\ outcome' = "ok"
    /\ ret' = <<>>
    /\ UNCHANGED <<made, writes, exported>>

CallClear(num_leafs, level_start) ==
    /\ outcome # "abort"
    /\ is_layers(m_full_tree, num_leafs, level_start)
    /\ m_full_tree' = clear(m_full_tree, num_leafs, level_start)
    /\ call' = "clear"
    /\ args' = <<num_leafs, level_start>>
    /\ outcome' = "ok"
    /\ ret' = <<>>
    /\ UNCHANGED <<made, writes, exported>>

\* leafs() of an empty tree forms &m_full_tree[0] past the end of the vector
CallLeafs ==
    /\ outcome # "abort"
    /\ call' = "leafs"
    /\ args' = <<>>
    /\ UNCHANGED <<m_full_tree, made, writes, exported>>
    /\ IF empty(m_full_tree)
       THEN \/ /\ outcome' = "abort"
               /\ ret' = <<>>
            \/ /\ outcome' = "oob_read"
               /\ ret' = leafs(m_full_tree)
       ELSE /\ outcome' = "ok"
            /\ ret' = leafs(m_full_tree)

CallIndexWrite(idx, h) ==
    /\ outcome # "abort"
    /\ idx >= 0
    /\ idx < end_index(m_full_tree)
    /\ writes < MaxWrites
    /\ m_full_tree' = index_write(m_full_tree, idx, h)
    /\ call' = "index_write"
    /\ args' = <<idx>>
    /\ outcome' = "ok"
    /\ ret' = <<>>
    /\ writes' = writes + 1
    /\ UNCHANGED <<made, exported>>

CallBuildVector ==
    /\ outcome # "abort"
    /\ exported' = build_vector(m_full_tree)
    /\ call' = "build_vector"
    /\ args' = <<>>
    /\ outcome' = "ok"
    /\ ret' = <<>>
    /\ UNCHANGED <<m_full_tree, made, writes>>

\* the integer arguments tried: every index of the largest tree and one more
Indexes == 0..merkle_num_nodes(merkle_num_leafs(MaxBlocks))

\* the constructors and the three mutating members
Next ==
    \/ CallCtorDefault
    \/ \E n \in BlockCounts, r \in Hashes : CallCtorBlocks(n, r)
    \/ \E t \in Vectors : CallCtorVector(t)
    \/ \E t \in Vectors : CallLoadTree(t)
    \/ \E p \in Indexes : CallFill(p)
    \/ \E p \in Indexes, l \in Indexes : CallFillLevel(p, l)
    \/ \E n \in Indexes, l \in Indexes : CallClear(n, l)
    \/ CallLeafs

Spec == Init /\ [][Next]_vars

\* a tree made from a block count, seeded through operator[] and filled
NextFill ==
    \/ \E n \in 1..MaxBlocks, r \in Hashes : CallCtorBlocks(n, r)
    \/ \E i \in Indexes, h \in Hashes : CallIndexWrite(i, h)
    \/ \E p \in Indexes : CallFill(p)
    \/ \E p \in Indexes, l \in Indexes : CallFillLevel(p, l)

SpecFill == Init /\ [][NextFill]_vars

\* a tree exported, a tree constructed, the export loaded into it
NextRoundTrip ==
    \/ \E n \in 1..MaxBlocks, r \in Hashes : CallCtorBlocks(n, r)
    \/ \E t \in Vectors : CallCtorVector(t)
    \/ CallBuildVector
    \/ CallLoadTree(exported)

SpecRoundTrip == Init /\ [][NextRoundTrip]_vars

\* ----------------------------------------------------------------- claims
\* N = 2 * L - 1 for a power of two L >= 1
IsTreeSize(N) == \E L \in 1..N : is_pow2(L) /\ N = 2 * L - 1

\* L is the smallest power of two >= n
IsLeafCount(L, n) == is_pow2(L) /\ L >= n /\ L < 2 * n

\* C1: load_tree on an empty tree is a no-op for every candidate: the tree
\* stays empty, no slot is read or written out of range, no error is raised.
\* (A tree is empty after load_tree exactly when it was empty before.)
C1_EmptyTreeLoadIsNoOp ==
    (call = "load_tree" /\ empty(m_full_tree)) => outcome = "rejected"

\* C2 as stated: a tree constructed with a non-zero root R still has root R
\* after any sequence of load_tree, fill and clear calls.
C2_RootKeptByLoadFillClear ==
    (made.kind = "blocks" /\ made.n >= 1 /\ made.root # zero)
        => root(m_full_tree) = made.root

\* C2 amended: no load_tree call on a non-empty tree, accepting or
\* rejecting, changes slot 0.
C2_LoadTreeKeepsRoot ==
    [][(call' = "load_tree" /\ ~empty(m_full_tree))
        => (~empty(m_full_tree') /\ root(m_full_tree') = root(m_full_tree))]_vars

C2_Witness ==
    /\ call = "load_tree"
    /\ outcome = "accepted"
    /\ made.kind = "blocks"
    /\ made.root # zero
    /\ size(m_full_tree) = 3
    /\ root(m_full_tree) = made.root
    /\ at(m_full_tree, 1) # zero

\* C3 as stated: whichever constructor made the tree, size() is 0 or
\* 2 * L - 1 for a power of two L.
C3_SizeAlwaysTreeShaped ==
    size(m_full_tree) = 0 \/ IsTreeSize(size(m_full_tree))

\* C3 amended: size() is 0 or 2 * L - 1 for a power of two L in every state
\* of a tree made by the default constructor, by (num_blocks, root), or from
\* a vector whose own length is 0 or of that form.
C3_SizeTreeShapedUnlessVectorIsNot ==
    (made.kind = "vector" => (made.n = 0 \/ IsTreeSize(made.n)))
        => (size(m_full_tree) = 0 \/ IsTreeSize(size(m_full_tree)))

C3_Witness ==
    /\ made.kind = "vector"
    /\ made.n = 3
    /\ call = "load_tree"
    /\ outcome = "accepted"
    /\ size(m_full_tree) = 3

\* C4: load_tree on a non-empty tree with a non-empty candidate whose slot 0
\* equals the root and whose length equals the size replaces every node:
\* build_vector() then equals the candidate element for element.
C4_AcceptReplacesAll ==
    [][call' = "load_tree" =>
        \A t \in Vectors :
            (/\ ~empty(m_full_tree)
             /\ Len(t) # 0
             /\ Len(t) = size(m_full_tree)
             /\ t[1] = root(m_full_tree)
             /\ CallLoadTree(t))
            => (/\ Len(build_vector(m_full_tree')) = Len(t)
                /\ \A i \in 1..Len(t) : build_vector(m_full_tree')[i] = t[i])]_vars

C4_Witness ==
    /\ call = "load_tree"
    /\ outcome = "accepted"
    /\ made.kind = "blocks"
    /\ size(m_full_tree) = 3
    /\ at(m_full_tree, 1) # at(m_full_tree, 2)

\* C5: load_tree on a non-empty tree with a candidate that is empty, or whose
\* slot 0 differs from the root, or whose length differs from the size,
\* rejects without an error and leaves every slot and the size as they were.
C5_RejectLeavesTree ==
    [][call' = "load_tree" =>
        \A t \in Vectors :
            (/\ ~empty(m_full_tree)
             /\ \/ Len(t) = 0
                \/ t[1] # root(m_full_tree)
                \/ Len(t) # size(m_full_tree)
             /\ CallLoadTree(t))
            => (m_full_tree' = m_full_tree /\ outcome' = "rejected")]_vars

C5_Witness ==
    /\ call = "load_tree"
    /\ outcome = "rejected"
    /\ size(m_full_tree) = 3
    /\ at(m_full_tree, 2) # zero

\* C6: constructing a tree with a block count below 1 fails with
\* InvalidArgument and produces no tree.
C6_NonPositiveBlocksFail ==
    (call = "ctor_blocks" /\ args[1] < 1)
        => (outcome = "InvalidArgument" /\ empty(m_full_tree))

\* C7: the tree constructed from (n, R) with n >= 1 has size 2 * L - 1 for
\* the smallest power of two L >= n, root R, and zero in every other slot.
C7_CtorBlocksShape ==
    (call = "ctor_blocks" /\ args[1] >= 1) =>
        /\ \E L \in 1..(2 * args[1]) :
              IsLeafCount(L, args[1]) /\ size(m_full_tree) = 2 * L - 1
        /\ root(m_full_tree) = made.root
        /\ \A i \in 1..(size(m_full_tree) - 1) : at(m_full_tree, i) = zero

C7_Witness ==
    /\ call = "ctor_blocks"
    /\ args = <<3>>
    /\ made.root # zero
    /\ size(m_full_tree) = 7
    /\ root(m_full_tree) = made.root

\* C9: leafs() of a non-empty tree of size N is the view of count =
\* (N + 1) / 2 slots (rounded down) from index N - count; for a tree made
\* from n >= 1 blocks count is the smallest power of two >= n, and for
\* N = 1 the view is slot 0 alone.
C9_LeafsSpan ==
    (call = "leafs" /\ ~empty(m_full_tree)) =>
        LET N == size(m_full_tree)
            start == ret[1]
            count == ret[2]
        IN  /\ 2 * count <= N + 1
            /\ N + 1 < 2 * count + 2
            /\ start = N - count
            /\ \A i \in 1..count :
                  span_view(m_full_tree, ret)[i] = m_full_tree[N - count + i]
            /\ (made.kind = "blocks" /\ made.n >= 1) => IsLeafCount(count, made.n)
            /\ N = 1 => ret = <<0, 1>>

C9_Witness ==
    /\ call = "leafs"
    /\ made.kind = "blocks"
    /\ made.n = 3
    /\ ret = <<3, 4>>

\* C8 as stated: the export of a tree, loaded into a freshly constructed tree
\* that has the same root, is accepted and the fresh tree then equals it.
C8_RoundTripSameRoot ==
    [][(/\ call = "ctor_blocks"
        /\ made.n >= 1
        /\ Len(exported) # 0
        /\ root(m_full_tree) = exported[1]
        /\ CallLoadTree(exported))
       => (outcome' = "accepted" /\ m_full_tree' = exported)]_vars

\* C8 amended: build_vector() copies the node sequence element for element,
\* and the export, loaded into a freshly constructed tree that has the same
\* root and the same size, is accepted and the fresh tree then equals it.
C8_RoundTripSameRootAndSize ==
    [][/\ CallBuildVector => (exported' = m_full_tree /\ m_full_tree' = m_full_tree)
       /\ (/\ call = "ctor_blocks"
           /\ made.n >= 1
           /\ Len(exported) # 0
           /\ root(m_full_tree) = exported[1]
           /\ size(m_full_tree) = Len(exported)
           /\ CallLoadTree(exported))
          => (outcome' = "accepted" /\ m_full_tree' = exported)]_vars

C8_Witness ==
    /\ call = "load_tree"
    /\ outcome = "accepted"
    /\ made.kind = "blocks"
    /\ made.n = 2
    /\ size(m_full_tree) = 3
    /\ m_full_tree = exported
    /\ at(m_full_tree, 2) # zero

RECURSIVE Pow2(_)
Pow2(k) == IF k <= 0 THEN 1 ELSE 2 * Pow2(k - 1)

\* the layer of index c, the root's being 0
Depth(c) == log2(c + 1)

\* the populated count of the layer `up` layers above one with pls populated
RECURSIVE PopulatedAt(_, _)
PopulatedAt(pls, up) ==
    IF up <= 0 THEN pls ELSE (PopulatedAt(pls, up - 1) + 1) \div 2

\* what a parent hashes for its child c after a fill from the layer at start:
\* the stored slot, or past the populated count the padding hash of c's depth
ExpectedChild(tree, c, start, pls) ==
    LET d == Depth(c)
        k == c - (Pow2(d) - 1)
        leaf_depth == log2((Len(tree) + 1) \div 2)
    IN  IF k < PopulatedAt(pls, Depth(start) - d)
        THEN at(tree, c)
        ELSE pad_hash(leaf_depth - d)

\* C10: after a fill from a layer whose first piece_layer_size entries are
\* populated, every node above that layer, up to the root, is Hash(left child
\* || right child) with each child past the populated count replaced by the
\* padding hash of its depth; for 3 blocks and piece_layer_size 3 the root is
\* Hash(Hash(h0 || h1) || Hash(h2 || pad[0])).
C10_FillPadsBeyondPopulated ==
    call \in {"fill", "fill_level"} =>
        LET pls == args[1]
            start == IF call = "fill" THEN piece_layer_start(pls) ELSE args[2]
        IN  /\ \A p \in 0..(start - 1) :
                  at(m_full_tree, p) =
                      Hash(ExpectedChild(m_full_tree, 2 * p + 1, start, pls),
                           ExpectedChild(m_full_tree, 2 * p + 2, start, pls))
            /\ (call = "fill" /\ made.n = 3 /\ pls = 3) =>
                  root(m_full_tree) =
                      Hash(Hash(at(m_full_tree, 3), at(m_full_tree, 4)),
                           Hash(at(m_full_tree, 5), pad_hash(0)))

\* the fourth leaf holds a digest, and the fill of three leaves passes it by
C10_Witness ==
    /\ call = "fill"
    /\ args = <<3>>
    /\ made.n = 3
    /\ size(m_full_tree) = 7
    /\ at(m_full_tree, 6) # zero
    /\ root(m_full_tree) =
           Hash(Hash(zero, zero), Hash(zero, pad_hash(0)))

====
